---- MODULE Spec2Model ----
(***************************************************************************)
(* strawberry-graphene: the bridge that converts graphene ("System B")     *)
(* type descriptors into graphql-core target types inside a strawberry     *)
(* ("System A") schema build, and the SyncToAsync resolver extension.      *)
(*                                                                         *)
(* A descriptor is a sequence of strings: zero or more wrapper tags        *)
(* ("List", "NonNull", "Thunk") followed by one base descriptor.  A target *)
(* type is a record [w, t]: the target wrappers and the identity (index    *)
(* into the heap of constructed GraphQL named types) of the named type.    *)
(***************************************************************************)
EXTENDS Integers, Sequences, FiniteSets, TLC

VARIABLES
    fieldsOf,       \* the field types declared by each object descriptor
    query,          \* Schema.__init__ argument: the query root
    mutation,       \* Schema.__init__ argument ("none" when absent)
    subscription,   \* Schema.__init__ argument ("none" when absent)
    types,          \* Schema.__init__ argument: the extra types
    pc,             \* position inside Schema.__init__
    conv,           \* the converter: graphene registry, host type_map, heap, call log
    query_type,     \* local of Schema.__init__
    mutation_type,  \* local of Schema.__init__
    subscription_type, \* local of Schema.__init__
    graphql_types,  \* local of Schema.__init__
    todo,           \* GraphQLSchema(...): named types still to be collected
    seen,           \* GraphQLSchema(...): named types collected so far
    errors,         \* the result of validate_schema
    err,            \* the exception that ended the build, [kind, about, report]
    xs              \* the state of one query execution (SyncToAsync)

vars == <<fieldsOf, query, mutation, subscription, types, pc, conv, query_type,
          mutation_type, subscription_type, graphql_types, todo, seen, errors,
          err, xs>>

----------------------------------------------------------------------------
(* Bounds of the model *)

\* deepest nesting of List/NonNull/Thunk wrappers around a field's type
MaxDepth == 1
\* longest extra_types argument
MaxExtra == 1
\* the most named target types one build may construct before the model stops
\* following it
MaxHeap == 12
\* the most fields in one executed document
MaxDoc == 2

----------------------------------------------------------------------------
(* The descriptors *)

\* graphene classes: ObjectType A, ObjectType B, a second ObjectType class
\* that is also named A, an ObjectType that implements the interface, and one
\* class of every other kind
GrapheneObjects == {"GA", "GB", "GA2", "GImpl"}
GrapheneBases ==
    GrapheneObjects \cup {"GInput", "GIface", "GScalar", "GEnum", "GUnion",
                          "GString", "GDecimal", "GOther"}
\* strawberry types: they carry _type_definition
StrawberryObjects == {"SPet"}
StrawberryInterfaces == {"SNode"}
StrawberryTypes == StrawberryObjects \cup StrawberryInterfaces
\* python classes the host's scalar registry knows
HostScalars == {"SDecimal", "SStr"}
\* a plain class and a value that is no class at all
JunkBases == {"JunkClass", "JunkVal"}

Bases == GrapheneBases \cup StrawberryTypes \cup HostScalars \cup JunkBases
WrapperTags == {"List", "NonNull", "Thunk"}

Base(d) == d[Len(d)]
IsBase(d) == Len(d) = 1
\* isinstance(x, type): wrapper instances, functions and plain values are no classes
IsClass(d) == IsBase(d) /\ d[1] # "JunkVal"

\* the kind of a graphene class (which graphene base class it derives from);
\* "GOther" has _meta.name but derives from none of the six
Kind(b) ==
    CASE b \in GrapheneObjects -> "object"
      [] b = "GInput" -> "input"
      [] b = "GIface" -> "interface"
      [] b \in {"GScalar", "GString", "GDecimal"} -> "scalar"
      [] b = "GEnum" -> "enum"
      [] b = "GUnion" -> "union"
      [] OTHER -> "other"

\* graphene_type._meta.name for the graphene classes; the name of the
\* definition for the host's types
NameOf(b) ==
    CASE b \in {"GA", "GA2"} -> "A"
      [] b = "GB" -> "B"
      [] b = "GImpl" -> "Impl"
      [] b = "GInput" -> "In"
      [] b = "GIface" -> "Iface"
      [] b = "GScalar" -> "Sc"
      [] b = "GEnum" -> "En"
      [] b = "GUnion" -> "Un"
      [] b = "GString" -> "String"
      [] b = "GDecimal" -> "Decimal"
      [] b = "GOther" -> "Oth"
      [] b = "SPet" -> "Pet"
      [] b = "SNode" -> "Node"
      [] b = "SDecimal" -> "Decimal"
      [] b = "SStr" -> "String"
      [] OTHER -> "?"

Names == {NameOf(b) : b \in Bases \ JunkBases}

\* the kinds whose fields (or members) graphene and strawberry resolve lazily
LazyKinds == {"object", "input", "interface", "union"}

----------------------------------------------------------------------------
(* Target types, errors and the converter's state *)

NoType == [w |-> <<>>, t |-> 0]
Named(i) == [w |-> <<>>, t |-> i]
\* an exception: its class, the value that made the call raise, and the value
\* its message shows (<<>> when the message shows none)
NoErr == [kind |-> "none", value |-> <<>>, about |-> <<>>]

\* the GraphQLString singleton exists before any build
StringInst ==
    [name |-> "String", kind |-> "scalar", org |-> "builtin", src |-> "SStr",
     resolved |-> TRUE, ifaces |-> <<>>, ftypes |-> <<>>]
BuiltinString == 1

AbsentMeta == [def |-> "absent", impl |-> 0]

\* GrapheneTypeMap.__init__ and GraphQLCoreConverter.__init__: both maps empty
NewConverter ==
    [registry |-> [n \in Names |-> 0],
     type_map |-> [n \in Names |-> AbsentMeta],
     heap |-> <<StringInst>>,
     wrappers |-> 0,
     log |-> <<>>]

Ok(st, res) == [st |-> st, res |-> res, err |-> NoErr]
Raise(st, kind, value, shown) ==
    [st |-> st, res |-> NoType,
     err |-> [kind |-> kind, value |-> value,
              about |-> IF shown THEN value ELSE <<>>]]
Failed(r) == r.err.kind # "none"

\* mutant: the converted inner type is returned as it is
Wrap_Bare(tag, r) == r

\* GraphQLList(...) / GraphQLNonNull(...) around the result of a call: one
\* more wrapper object comes into being
Wrap(tag, r) ==
    IF Failed(r) THEN r
    ELSE [r EXCEPT !.res.w = <<tag>> \o @, !.st.wrappers = @ + 1]

IsLazy(b) ==
    \/ b \in GrapheneBases /\ Kind(b) \in LazyKinds
    \/ b \in StrawberryTypes

NewInst(b, org) ==
    [name |-> NameOf(b), kind |-> IF b \in GrapheneBases THEN Kind(b)
                                  ELSE IF b \in HostScalars THEN "scalar"
                                  ELSE "object",
     org |-> org, src |-> b,
     resolved |-> ~IsLazy(b),
     ifaces |-> <<>>,
     ftypes |-> <<>>]

\* one entry of the call log: a conversion of a named descriptor; pending
\* tells that the fields of the type it returned were not resolved yet
Logged(st, b, i, built, via) ==
    [st EXCEPT !.log = Append(@, [d |-> b, name |-> NameOf(b), res |-> i,
                                  built |-> built, via |-> via,
                                  pending |-> ~st.heap[i].resolved])]

Alloc(st, inst) == [st EXCEPT !.heap = Append(@, inst)]

----------------------------------------------------------------------------
(* The host builder (strawberry's GraphQLCoreConverter), as far as the     *)
(* bridge calls it                                                         *)

\* from_scalar: one implementation per scalar name, remembered in type_map;
\* str is served by the GraphQLString singleton
FromScalar(st, py) ==
    LET name == NameOf(py)
        meta == st.type_map[name]
    IN  IF meta.def # "absent" THEN Ok(st, Named(meta.impl))
        ELSE LET st1 == IF py = "SStr" THEN st ELSE Alloc(st, NewInst(py, "host"))
                 impl == IF py = "SStr" THEN BuiltinString ELSE Len(st1.heap)
             IN  Ok([st1 EXCEPT !.type_map[name] = [def |-> py, impl |-> impl]],
                    Named(impl))

\* from_object: "don't reevaluate known types": a name already in type_map is
\* answered with the implementation stored there; otherwise the object type is
\* created (its fields stay a thunk) and stored
FromObject(st, b) ==
    LET name == NameOf(b)
        meta == st.type_map[name]
    IN  IF meta.def # "absent" THEN Ok(st, Named(meta.impl))
        ELSE LET st1 == Alloc(st, NewInst(b, "host"))
                 impl == Len(st1.heap)
             IN  Ok([st1 EXCEPT !.type_map[name] = [def |-> b, impl |-> impl]],
                    Named(impl))

\* from_interface: as from_object, for a definition with is_interface
FromInterface(st, b) ==
    LET name == NameOf(b)
        meta == st.type_map[name]
    IN  IF meta.def # "absent" THEN Ok(st, Named(meta.impl))
        ELSE LET st1 == Alloc(st, [NewInst(b, "host") EXCEPT !.kind = "interface"])
                 impl == Len(st1.heap)
             IN  Ok([st1 EXCEPT !.type_map[name] = [def |-> b, impl |-> impl]],
                    Named(impl))

\* the host's own from_type (super().from_type): dispatch on the host's kinds,
\* TypeError("Unexpected type '...'") for anything else
FromTypeSuper(st, d) ==
    IF d[1] \in StrawberryInterfaces THEN FromInterface(st, d[1])
    ELSE IF d[1] \in StrawberryObjects THEN FromObject(st, d[1])
    ELSE IF d[1] \in HostScalars THEN FromScalar(st, d[1])
    ELSE Raise(st, "TypeError", d, TRUE)

----------------------------------------------------------------------------
(* GrapheneTypeMap.add_type and the overrides of GraphQLCoreConverter      *)

\* mutant: the marker is never seen
IsStrawberryMarked_Never(d) == FALSE

\* hasattr(graphene_type, "_type_definition") or hasattr(.., "_enum_definition")
IsStrawberryMarked(d) == IsBase(d) /\ d[1] \in StrawberryTypes

\* mutant: no special case for graphene.Decimal
IsGrapheneDecimal_Never(d) == FALSE

\* isinstance(graphene_type, type) and issubclass(graphene_type, graphene.Decimal)
IsGrapheneDecimal(d) == IsClass(d) /\ d[1] = "GDecimal"

\* inspect.isfunction(graphene_type): graphene_type = graphene_type()
CallThunk(d) == IF Head(d) = "Thunk" THEN Tail(d) ELSE d

\* graphene's get_type, behind Field.type and List.of_type / NonNull.of_type:
\* a lazy reference is called before the type is handed on
GetType(d) == IF Head(d) = "Thunk" THEN Tail(d) ELSE d

\* graphene_type.of_type of a List or NonNull
OfType(d) == GetType(Tail(d))

\* graphene_type._meta.name exists
HasMeta(d) == IsBase(d) /\ d[1] \in GrapheneBases

\* mutant: the lookup never finds the name
Get_Miss(st, name) == 0

\* self.get(name)
Get(st, name) == st.registry[name]

\* mutant: the result is not registered
Put_Dropped(st, name, i) == st

\* self[name] = graphql_type
Put(st, name, i) == [st EXCEPT !.registry[name] = i]

\* mutant: the host's type_map is not told
Install_Never(st, b, i) == st

\* the placeholder in the host's type_map, for everything but scalars
Install(st, b, i) ==
    IF Kind(b) = "scalar" THEN st
    ELSE [st EXCEPT !.type_map[NameOf(b)] = [def |-> "None", impl |-> i]]

\* create_objecttype ... construct_union: a new target type whose fields,
\* interfaces or members are a thunk; create_scalar answers graphene.String
\* with the GraphQLString singleton
Create(st, b) ==
    IF b = "GString" THEN [st |-> st, i |-> BuiltinString]
    ELSE LET st1 == Alloc(st, NewInst(b, "graphene"))
         IN  [st |-> st1, i |-> Len(st1.heap)]

RECURSIVE AddType(_, _)
RECURSIVE FromType(_, _)

\* GraphQLCoreConverter.from_type
FromType(st, d) ==
    IF ~IsClass(d) THEN Raise(st, "TypeError", d, FALSE)
    ELSE IF d[1] \in GrapheneBases THEN AddType(st, d)
    ELSE FromTypeSuper(st, d)

\* GrapheneTypeMap.add_type
AddType(st, d) ==
    IF IsStrawberryMarked(d)
    THEN LET r == FromType(st, d)
         IN  IF Failed(r) THEN r
             ELSE [r EXCEPT !.st = Logged(r.st, d[1], r.res.t,
                                          Len(r.st.heap) > Len(st.heap), "marker")]
    ELSE IF IsGrapheneDecimal(d)
    THEN LET r == FromScalar(st, "SDecimal")
         IN  [r EXCEPT !.st = Logged(r.st, d[1], r.res.t,
                                      Len(r.st.heap) > Len(st.heap), "decimal")]
    ELSE LET g == CallThunk(d)
         IN  IF Head(g) = "List" THEN Wrap("List", AddType(st, OfType(g)))
             ELSE IF Head(g) = "NonNull" THEN Wrap("NonNull", AddType(st, OfType(g)))
             ELSE IF ~HasMeta(g) THEN Raise(st, "TypeError", g, TRUE)
             ELSE LET b == g[1]
                      name == NameOf(b)
                      found == Get(st, name)
                  IN  IF found # 0
                      THEN Ok(Logged(st, b, found, FALSE, "registry"), Named(found))
                      ELSE IF Kind(b) = "other" THEN Raise(st, "TypeError", g, TRUE)
                      ELSE LET c == Create(st, b)
                               st2 == Install(Put(c.st, name, c.i), b, c.i)
                           IN  Ok(Logged(st2, b, c.i, TRUE, "registry"), Named(c.i))

\* GraphQLCoreConverter.add_graphene_type
AddGrapheneType(st, d) == AddType(st, d)

\* GraphQLCoreConverter.from_object_type
FromObjectType(st, d) ==
    IF ~IsClass(d) THEN Raise(st, "TypeError", d, FALSE)
    ELSE IF d[1] \in GrapheneObjects THEN AddGrapheneType(st, d)
    ELSE IF d[1] \in StrawberryTypes THEN FromObject(st, d[1])
    ELSE Raise(st, "AttributeError", d, TRUE)

----------------------------------------------------------------------------
(* Lazy fields: graphene's create_fields_for_type and strawberry's         *)
(* get_graphql_fields run when GraphQLSchema(...) first reads .fields      *)

\* the type of one field of the target type i: a graphene field hands
\* Field.type to add_type, a strawberry field goes through from_maybe_optional
\* (the field is not Optional) and from_type
FieldTarget(st, i, f) ==
    IF st.heap[i].org = "graphene" THEN AddType(st, GetType(f))
    ELSE Wrap("NonNull", FromType(st, f))

\* graphene_type._meta.interfaces
InterfacesOf(b) == IF b = "GImpl" THEN << <<"GIface">> >> ELSE <<>>

\* what the thunks of target type i convert, in the order GraphQLSchema(...)
\* reads them: the declared interfaces (create_objecttype's interfaces thunk
\* hands each to add_type), then the types of the fields
ReferencesOf(st, i) ==
    InterfacesOf(st.heap[i].src) \o fieldsOf[st.heap[i].src]

RECURSIVE ResolveFrom(_, _, _, _)
\* the references k, k+1, ... of target type i; the first failure ends the
\* resolution (r ranges over the one outcome of the conversion, so that it is
\* computed once)
ResolveFrom(st, i, k, acc) ==
    LET rs == ReferencesOf(st, i)
        n == Len(InterfacesOf(st.heap[i].src))
    IN  IF k > Len(rs)
        THEN Ok([st EXCEPT !.heap[i].resolved = TRUE,
                           !.heap[i].ifaces = [j \in 1..n |-> acc[j].t],
                           !.heap[i].ftypes = SubSeq(acc, n + 1, Len(acc))],
                NoType)
        ELSE CHOOSE x \in {IF Failed(r) THEN r
                            ELSE ResolveFrom(r.st, i, k + 1, Append(acc, r.res)) :
                                r \in {FieldTarget(st, i, rs[k])}} : TRUE

ResolveFields(st, i) == ResolveFrom(st, i, 1, <<>>)

\* validate_schema: every object type must define one or more fields
RECURSIVE ValidateFrom(_, _, _)
ValidateFrom(st, S, k) ==
    IF k > Len(st.heap) THEN <<>>
    ELSE (IF /\ k \in S
             /\ st.heap[k].kind \in {"object", "input", "interface"}
             /\ st.heap[k].ftypes = <<>>
          THEN <<st.heap[k].name>>
          ELSE <<>>) \o ValidateFrom(st, S, k + 1)

ValidateSchema(st, S) == ValidateFrom(st, S, 1)

\* mutant: only the first error is reported
FormatErrors_First(es) == << <<"X", es[1]>> >>

\* "\n\n".join(f"X {error.message}" for error in errors)
FormatErrors(es) == [k \in 1..Len(es) |-> <<"X", es[k]>>]

\* GraphQLSchema(...): two collected types may not share a name
UniqueNames(st, S) ==
    \A i \in S : \A j \in S : st.heap[i].name = st.heap[j].name => i = j

----------------------------------------------------------------------------
(* The inputs of a build *)

RECURSIVE Wrapped(_, _)
\* the descriptors over the bases S with at most n wrappers; a lazy reference
\* yields a descriptor, not another lazy reference
Wrapped(S, n) ==
    IF n = 0 THEN {<<b>> : b \in S}
    ELSE LET W == Wrapped(S, n - 1)
         IN  W \cup {<<p[1]>> \o p[2] :
                        p \in {q \in WrapperTags \X W :
                                  ~(q[1] = "Thunk" /\ Head(q[2]) = "Thunk")}}

RECURSIVE SeqsUpTo(_, _)
SeqsUpTo(S, n) ==
    IF n = 0 THEN {<<>>}
    ELSE LET P == SeqsUpTo(S, n - 1)
         IN  P \cup {Append(q, x) : q \in P, x \in S}

FieldBasesA == {"GA", "GB", "GA2", "GDecimal", "GString", "SPet", "JunkClass"}
FieldsA == {<<>>} \cup {<<d>> : d \in Wrapped(FieldBasesA, MaxDepth)}
FieldsB == {<<>>, << <<"GA">> >>, << <<"Thunk", "GA">> >>, << <<"NonNull", "GA">> >>}
FieldsPet == {<< <<"SStr">> >>, << <<"SDecimal">> >>,
              << <<"SDecimal">>, <<"GA">> >>, << <<"JunkClass">> >>}
QueryRoots == {"GA", "GB", "SPet", "JunkClass"}
OtherRoots == {<<"none", "none">>, <<"GB", "SPet">>}
ExtraTypes == {"GA2", "SPet", "JunkVal"}

FixedFields ==
    [b \in {"GA2", "GImpl", "GInput", "GIface", "GUnion", "SNode"} |->
        IF b = "GA2" THEN <<>>
        ELSE IF b = "GUnion" THEN << <<"GA">> >>
        ELSE IF b = "SNode" THEN << <<"SStr">> >>
        ELSE << <<"GString">> >>]

\* the bases the fields of b refer to
RefsOf(b) ==
    IF b \in DOMAIN fieldsOf
    THEN {Base(fieldsOf[b][k]) : k \in 1..Len(fieldsOf[b])}
    ELSE {}
SelfReferencing == \E b \in GrapheneObjects : b \in RefsOf(b)
MutuallyReferencing ==
    \E a \in GrapheneObjects : \E b \in GrapheneObjects :
        a # b /\ b \in RefsOf(a) /\ a \in RefsOf(b)

XIdle == [phase |-> "idle"]

NoError == [kind |-> "none", value |-> <<>>, about |-> <<>>, report |-> <<>>]

----------------------------------------------------------------------------
(* Schema.__init__ *)

Init ==
    /\ \E fa \in FieldsA, fb \in FieldsB, fp \in FieldsPet :
          fieldsOf = [b \in DOMAIN FixedFields \cup {"GA", "GB", "SPet"} |->
                         CASE b = "GA" -> fa
                           [] b = "GB" -> fb
                           [] b = "SPet" -> fp
                           [] OTHER -> FixedFields[b]]
    /\ query \in QueryRoots
    /\ \E o \in OtherRoots : mutation = o[1] /\ subscription = o[2]
    /\ types \in SeqsUpTo(ExtraTypes, MaxExtra)
    /\ pc = "query"
    /\ conv = NewConverter
    /\ query_type = 0
    /\ mutation_type = 0
    /\ subscription_type = 0
    /\ graphql_types = <<>>
    /\ todo = <<>>
    /\ seen = {}
    /\ errors = <<>>
    /\ err = NoError
    /\ xs = XIdle

\* an exception leaves __init__: no Schema object comes into being
Abort(r) ==
    /\ pc' = "failed"
    /\ err' = [kind |-> r.err.kind, value |-> r.err.value, about |-> r.err.about,
               report |-> <<>>]

\* query_type = self.schema_converter.from_object_type(query)
ConvertQuery ==
    /\ pc = "query"
    /\ LET r == FromObjectType(conv, <<query>>)
       IN  /\ conv' = r.st
           /\ IF Failed(r)
              THEN Abort(r) /\ UNCHANGED query_type
              ELSE pc' = "mutation" /\ query_type' = r.res.t /\ UNCHANGED err
    /\ UNCHANGED <<fieldsOf, query, mutation, subscription, types, mutation_type,
                   subscription_type, graphql_types, todo, seen, errors, xs>>

\* mutation_type = from_object_type(mutation) if mutation else None
ConvertMutation ==
    /\ pc = "mutation"
    /\ IF mutation = "none"
       THEN pc' = "subscription" /\ UNCHANGED <<conv, mutation_type, err>>
       ELSE LET r == FromObjectType(conv, <<mutation>>)
            IN  /\ conv' = r.st
                /\ IF Failed(r)
                   THEN Abort(r) /\ UNCHANGED mutation_type
                   ELSE /\ pc' = "subscription"
                        /\ mutation_type' = r.res.t
                        /\ UNCHANGED err
    /\ UNCHANGED <<fieldsOf, query, mutation, subscription, types, query_type,
                   subscription_type, graphql_types, todo, seen, errors, xs>>

\* subscription_type = from_object_type(subscription) if subscription else None
ConvertSubscription ==
    /\ pc = "subscription"
    /\ IF subscription = "none"
       THEN pc' = "directives" /\ UNCHANGED <<conv, subscription_type, err>>
       ELSE LET r == FromObjectType(conv, <<subscription>>)
            IN  /\ conv' = r.st
                /\ IF Failed(r)
                   THEN Abort(r) /\ UNCHANGED subscription_type
                   ELSE /\ pc' = "directives"
                        /\ subscription_type' = r.res.t
                        /\ UNCHANGED err
    /\ UNCHANGED <<fieldsOf, query, mutation, subscription, types, query_type,
                   mutation_type, graphql_types, todo, seen, errors, xs>>

\* graphql_directives = [from_directive(d) for d in directives]: the host's
\* conversion of its own directives, which touches no type
ConvertDirectives ==
    /\ pc = "directives"
    /\ pc' = "types"
    /\ UNCHANGED <<fieldsOf, query, mutation, subscription, types, conv, query_type,
                   mutation_type, subscription_type, graphql_types, todo, seen,
                   errors, err, xs>>

\* one round of: for type_ in types: graphql_types.append(from_object_type(type_))
ConvertExtraType ==
    /\ pc = "types"
    /\ Len(graphql_types) < Len(types)
    /\ LET r == FromObjectType(conv, <<types[Len(graphql_types) + 1]>>)
       IN  /\ conv' = r.st
           /\ IF Failed(r)
              THEN Abort(r) /\ UNCHANGED graphql_types
              ELSE /\ graphql_types' = Append(graphql_types, r.res.t)
                   /\ UNCHANGED <<pc, err>>
    /\ UNCHANGED <<fieldsOf, query, mutation, subscription, types, query_type,
                   mutation_type, subscription_type, todo, seen, errors, xs>>

\* mutant: the extra types are not handed to GraphQLSchema
SchemaArguments_RootsOnly(q, m, s, ts) ==
    <<q>> \o (IF m = 0 THEN <<>> ELSE <<m>>) \o (IF s = 0 THEN <<>> ELSE <<s>>)

\* the named types handed to GraphQLSchema(query=..., mutation=...,
\* subscription=..., types=...)
SchemaArguments(q, m, s, ts) ==
    <<q>> \o (IF m = 0 THEN <<>> ELSE <<m>>) \o (IF s = 0 THEN <<>> ELSE <<s>>)
          \o ts

\* GraphQLSchema(query=..., mutation=..., subscription=..., types=...) starts
\* collecting the types the roots and the extra types refer to
Assemble ==
    /\ pc = "types"
    /\ Len(graphql_types) = Len(types)
    /\ todo' = SchemaArguments(query_type, mutation_type, subscription_type,
                               graphql_types)
    /\ pc' = "collect"
    /\ UNCHANGED <<fieldsOf, query, mutation, subscription, types, conv, query_type,
                   mutation_type, subscription_type, graphql_types, seen, errors,
                   err, xs>>

\* the targets type i refers to: its interfaces, then the types of its fields
Referenced(st, i) ==
    st.heap[i].ifaces \o [k \in 1..Len(st.heap[i].ftypes) |-> st.heap[i].ftypes[k].t]

\* GraphQLSchema(...) collects one more type; reading its fields runs the
\* thunk the builder left, which converts the fields' types
Collect ==
    /\ pc = "collect"
    /\ todo # <<>>
    /\ Len(conv.heap) < MaxHeap
    /\ LET i == Head(todo)
       IN  IF i \in seen
           THEN todo' = Tail(todo) /\ UNCHANGED <<pc, conv, seen, err>>
           ELSE IF conv.heap[i].resolved
           THEN /\ todo' = Referenced(conv, i) \o Tail(todo)
                /\ seen' = seen \cup {i}
                /\ UNCHANGED <<pc, conv, err>>
           ELSE \E r \in {ResolveFields(conv, i)} :
                    /\ conv' = r.st
                    /\ IF Failed(r)
                       THEN Abort(r) /\ UNCHANGED <<todo, seen>>
                       ELSE /\ todo' = Referenced(r.st, i) \o Tail(todo)
                            /\ seen' = seen \cup {i}
                            /\ UNCHANGED <<pc, err>>
    /\ UNCHANGED <<fieldsOf, query, mutation, subscription, types, query_type,
                   mutation_type, subscription_type, graphql_types, errors, xs>>

\* mutant: the Schema is returned as soon as it is assembled
Assembled_Unvalidated ==
    /\ pc = "collect"
    /\ todo = <<>>
    /\ pc' = "done"
    /\ UNCHANGED <<fieldsOf, query, mutation, subscription, types, conv, query_type,
                   mutation_type, subscription_type, graphql_types, todo, seen,
                   errors, err, xs>>

\* GraphQLSchema(...) returns, or raises for two types of one name
Assembled ==
    /\ pc = "collect"
    /\ todo = <<>>
    /\ IF UniqueNames(conv, seen)
       THEN pc' = "validate" /\ UNCHANGED err
       ELSE /\ pc' = "failed"
            /\ err' = [kind |-> "TypeError", value |-> <<>>, about |-> <<>>,
                       report |-> <<>>]
    /\ UNCHANGED <<fieldsOf, query, mutation, subscription, types, conv, query_type,
                   mutation_type, subscription_type, graphql_types, todo, seen,
                   errors, xs>>

\* errors = validate_schema(self._schema); raise ValueError if errors;
\* self.query = self.schema_converter.type_map[query_type.name]
Validate ==
    /\ pc = "validate"
    /\ errors' = ValidateSchema(conv, seen)
    /\ IF errors' # <<>>
       THEN /\ pc' = "failed"
            /\ err' = [kind |-> "ValueError", value |-> <<>>, about |-> <<>>,
                       report |-> FormatErrors(errors')]
       ELSE IF conv.type_map[conv.heap[query_type].name].def = "absent"
       THEN /\ pc' = "failed"
            /\ err' = [kind |-> "KeyError", value |-> <<>>, about |-> <<>>,
                       report |-> <<>>]
       ELSE pc' = "done" /\ UNCHANGED err
    /\ UNCHANGED <<fieldsOf, query, mutation, subscription, types, conv, query_type,
                   mutation_type, subscription_type, graphql_types, todo, seen, xs>>

Next ==
    \/ ConvertQuery
    \/ ConvertMutation
    \/ ConvertSubscription
    \/ ConvertDirectives
    \/ ConvertExtraType
    \/ Assemble
    \/ Collect
    \/ Assembled
    \/ Validate

Spec == Init /\ [][Next]_vars

\* The builds whose query root is one of a self-referencing or mutually
\* referencing pair of graphene object types.  Schema.__init__ is straight-line
\* code on one thread: a step that can be taken is taken.
InitCycle ==
    /\ Init
    /\ SelfReferencing \/ MutuallyReferencing
    /\ query \in {"GA", "GB"}
    /\ mutation = "none"
    /\ fieldsOf["SPet"] = << <<"SStr">> >>

CycleSpec == InitCycle /\ [][Next]_vars /\ WF_vars(Next)

----------------------------------------------------------------------------
(* Properties of the build *)

Terminated == pc \in {"done", "failed"}

LogIdx == 1..Len(conv.log)
HeapIdx == 1..Len(conv.heap)

\* C1: two conversions of graphene descriptors of one name return the same
\* target instance; the later one runs no builder and, for a type the
\* registry serves, returns the registry's entry
C1_SameNameSameInstance ==
    \A i \in LogIdx : \A j \in LogIdx :
        (/\ i < j
         /\ conv.log[i].via # "marker"
         /\ conv.log[j].via # "marker"
         /\ conv.log[i].name = conv.log[j].name)
        => /\ conv.log[j].res = conv.log[i].res
           /\ ~conv.log[j].built
           /\ conv.log[j].via = "registry"
                => conv.registry[conv.log[j].name] = conv.log[j].res

\* a name was converted twice, from two different classes, in a finished build
C1_Witness ==
    /\ pc = "done"
    /\ \E i \in LogIdx : \E j \in LogIdx :
          /\ i < j
          /\ conv.log[i].via = "registry"
          /\ conv.log[j].via = "registry"
          /\ conv.log[i].name = conv.log[j].name
          /\ conv.log[i].d # conv.log[j].d

\* C2: a build over a self-referencing object type or a mutually referencing
\* pair of object types comes to an end, and never constructs more target
\* types than the model follows
C2_CyclesTerminate ==
    /\ [](Len(conv.heap) < MaxHeap)
    /\ (SelfReferencing \/ MutuallyReferencing) ~> Terminated

\* a finished build in which both types of a mutually referencing pair were
\* collected with their fields resolved
C2_Witness ==
    /\ pc = "done"
    /\ MutuallyReferencing
    /\ \E i \in seen : \E j \in seen :
          /\ conv.heap[i].src = "GA" /\ conv.heap[i].ftypes # <<>>
          /\ conv.heap[j].src = "GB" /\ conv.heap[j].ftypes # <<>>
          /\ conv.heap[i].ftypes[1].t = j
          /\ conv.heap[j].ftypes[1].t = i

DecimalScalars == {i \in HeapIdx : conv.heap[i].name = "Decimal"}
\* a collected type built by org has a field whose named type is Decimal
RefersToDecimal(org) ==
    \E i \in seen :
        /\ conv.heap[i].org = org
        /\ \E k \in 1..Len(conv.heap[i].ftypes) :
              conv.heap[i].ftypes[k].t \in DecimalScalars

\* C3: at most one scalar named Decimal is ever constructed, it is the host's,
\* the graphene registry holds none, and a finished schema that refers to
\* Decimal from a graphene field and from a strawberry field holds exactly it
C3_OneDecimal ==
    /\ Cardinality(DecimalScalars) <= 1
    /\ \A i \in DecimalScalars :
          /\ conv.heap[i].org = "host"
          /\ conv.type_map["Decimal"].impl = i
    /\ conv.registry["Decimal"] = 0
    /\ (pc = "done" /\ RefersToDecimal("graphene") /\ RefersToDecimal("host"))
          => Cardinality(seen \cap DecimalScalars) = 1

\* a finished schema with Decimal behind a graphene field and a strawberry
\* field, the graphene field converted first
C3_Witness ==
    /\ pc = "done"
    /\ RefersToDecimal("graphene")
    /\ RefersToDecimal("host")
    /\ \E i \in LogIdx : conv.log[i].via = "decimal" /\ conv.log[i].built

\* neither a graphene kind nor convertible by the host
Unrecognized(d) == Base(d) \in JunkBases \cup {"GOther"}

\* C4 (as claimed): a build that meets an unrecognized descriptor fails with a
\* TypeError (TypeConversionError) whose message shows the offending value
C4_UnrecognizedIsTypeError ==
    (pc = "failed" /\ err.value # <<>> /\ Unrecognized(err.value))
       => err.kind = "TypeError" /\ err.about = err.value

\* C5: when validate_schema reports errors the build fails with one
\* ValueError (SchemaValidationError) whose report holds every message, and a
\* build that returned a Schema had none
C5_ValidationErrorsAbort ==
    /\ errors # <<>>
          => /\ pc = "failed"
             /\ err.kind = "ValueError"
             /\ \A k \in 1..Len(errors) :
                   \E j \in 1..Len(err.report) : err.report[j][2] = errors[k]
    /\ pc = "done" => ValidateSchema(conv, seen) = <<>>
    /\ (pc = "failed" /\ err.kind = "ValueError")
          => errors = ValidateSchema(conv, seen) /\ errors # <<>>

\* validation reported two errors
C5_Witness == pc = "failed" /\ err.kind = "ValueError" /\ Len(errors) >= 2

MarkedDescriptors == {<<b>> : b \in StrawberryObjects}

\* C8: add_type of a strawberry-marked descriptor returns what the host's own
\* from_type returns, unwrapped, and leaves the graphene registry as it was
C8_MarkedDelegates ==
    /\ \A d \in MarkedDescriptors :
          LET r == AddType(conv, d)
              h == FromTypeSuper(conv, d)
          IN  /\ r.res = h.res
              /\ r.err = h.err
              /\ r.st.type_map = h.st.type_map
              /\ r.st.heap = h.st.heap
              /\ r.st.registry = conv.registry
    /\ \A i \in LogIdx :
          conv.log[i].via = "marker"
             => /\ conv.registry[conv.log[i].name] = 0
                /\ conv.type_map[conv.log[i].name].impl = conv.log[i].res
                /\ conv.heap[conv.log[i].res].org = "host"

\* a strawberry type was converted as the type of a graphene field
C8_Witness ==
    /\ pc = "done"
    /\ \E i \in seen :
          /\ conv.heap[i].org = "graphene"
          /\ \E k \in 1..Len(conv.heap[i].ftypes) :
                /\ conv.heap[i].ftypes[k].w = <<>>
                /\ conv.heap[conv.heap[i].ftypes[k].t].org = "host"
                /\ conv.heap[conv.heap[i].ftypes[k].t].kind = "object"

\* concrete descriptors of every kind add_type accepts
ConcreteProbes ==
    {<<"GA">>, <<"GB">>, <<"GEnum">>, <<"List", "GA">>, <<"NonNull", "GB">>,
     <<"GDecimal">>, <<"SPet">>}

\* C9 (as claimed): converting a lazy reference to d gives the target type and
\* the registry that converting d gives
C9_ThunkSameAsDirect ==
    \A d \in ConcreteProbes :
        LET lazy == AddType(conv, <<"Thunk">> \o d)
            direct == AddType(conv, d)
        IN  /\ lazy.res = direct.res
            /\ lazy.err.kind = direct.err.kind
            /\ lazy.st.registry = direct.st.registry

----------------------------------------------------------------------------
(* Query execution with the SyncToAsync extension                          *)
(*                                                                         *)
(* A document is a sequence of root fields of a mutation, resolved one     *)
(* after the other.  A field is [fn, intro, arg]: its resolver, whether    *)
(* is_introspection_field(info) holds for it, and the argument of the      *)
(* call.  Three executions of one document are followed side by side:      *)
(* execute_sync and execute on the schema with the extension, and          *)
(* execute_sync on the same schema without it.                             *)

\* the resolvers: a plain function with a blocking side effect (AddUser.mutate
\* with get_or_create), a plain function that raises, an "async def"
SyncFns == {"mutate", "broken"}
CoroutineFns == {"amutate"}
Fns == SyncFns \cup CoroutineFns
Args == {"jkimbo", "other"}
DocFields == [fn : Fns, intro : BOOLEAN, arg : Args]
Docs == SeqsUpTo(DocFields, MaxDoc)

\* inspect.iscoroutinefunction(_next)
IsCoroutineFunction(fn) == fn \in CoroutineFns

\* _next(root, info, *args, **kwargs)
Direct(f, ts) == [fn |-> f.fn, arg |-> f.arg, via |-> "direct", ts |-> FALSE]

\* sync_to_async(_next, thread_sensitive=self._thread_sensitive)(root, info, ...)
Offload(f, ts) == [fn |-> f.fn, arg |-> f.arg, via |-> "offload", ts |-> ts]

\* mutant: the kind of the resolver is looked at before the field
Resolve_KindFirst(f, ts) ==
    IF ~IsCoroutineFunction(f.fn) THEN Offload(f, ts) ELSE Direct(f, ts)

\* SyncToAsync.resolve: the call it makes for field f
Resolve(f, ts) ==
    IF f.intro THEN Direct(f, ts)
    ELSE IF ~IsCoroutineFunction(f.fn) THEN Offload(f, ts)
    ELSE Direct(f, ts)

\* what the call hands back before anything is awaited: a coroutine for an
\* "async def" resolver and for sync_to_async, the outcome of the body otherwise
IsAwaitable(c) == c.via = "offload" \/ IsCoroutineFunction(c.fn)

\* the body of a resolver: its effect on the database and its outcome
Body(c, db) ==
    IF c.fn = "broken" THEN [db |-> db, ok |-> FALSE, value |-> <<"boom", c.arg>>]
    ELSE [db |-> db \cup {c.arg}, ok |-> TRUE, value |-> <<"user", c.arg>>]

RunIds == {"syncExt", "asyncExt", "syncPlain"}
UsesExtension(id) == id \in {"syncExt", "asyncExt"}
IsAsyncEntry(id) == id = "asyncExt"

NewRun ==
    [k |-> 1, db |-> {}, data |-> <<>>, errs |-> <<>>, calls |-> <<>>, ran |-> <<>>,
     status |-> "running"]

\* the build is over; SyncToAsync.__init__ stores thread_sensitive
ExecInit ==
    /\ fieldsOf = [b \in DOMAIN FixedFields |-> FixedFields[b]]
    /\ query = "SPet"
    /\ mutation = "GA"
    /\ subscription = "none"
    /\ types = <<>>
    /\ pc = "done"
    /\ conv = NewConverter
    /\ query_type = 0
    /\ mutation_type = 0
    /\ subscription_type = 0
    /\ graphql_types = <<>>
    /\ todo = <<>>
    /\ seen = {}
    /\ errors = <<>>
    /\ err = NoError
    /\ \E doc \in Docs, ts \in BOOLEAN :
          xs = [phase |-> "exec", doc |-> doc, ts |-> ts,
                runs |-> [id \in RunIds |-> NewRun]]

\* the outcome of field f in run r once the resolver's body has run
Settled(r, c) ==
    LET b == Body(c, r.db)
    IN  [r EXCEPT !.k = @ + 1,
                  !.db = b.db,
                  !.calls = Append(@, c),
                  !.ran = Append(@, 1),
                  !.data = Append(@, IF b.ok THEN b.value ELSE <<"null">>),
                  !.errs = IF b.ok THEN @ ELSE Append(@, b.value)]

\* execute_sync / execute resolve the next root field of run id.  A resolver
\* that hands back an awaitable is awaited by execute; execute_sync cannot
\* await: it cancels what is pending and raises RuntimeError("GraphQL
\* execution failed to complete synchronously.")
ExecField(id) ==
    /\ xs.phase = "exec"
    /\ xs.runs[id].status = "running"
    /\ xs.runs[id].k <= Len(xs.doc)
    /\ LET r == xs.runs[id]
           f == xs.doc[r.k]
           c == IF UsesExtension(id) THEN Resolve(f, xs.ts) ELSE Direct(f, xs.ts)
       IN  xs' = [xs EXCEPT !.runs[id] =
                     IF IsAwaitable(c) /\ ~IsAsyncEntry(id)
                     THEN [r EXCEPT !.k = @ + 1,
                                    !.calls = Append(@, c),
                                    !.ran = Append(@, 0),
                                    !.data = <<>>,
                                    !.status = "RuntimeError"]
                     ELSE Settled(r, c)]
    /\ UNCHANGED <<fieldsOf, query, mutation, subscription, types, pc, conv,
                   query_type, mutation_type, subscription_type, graphql_types,
                   todo, seen, errors, err>>

\* the execution hands its Result to the caller
ExecReturn(id) ==
    /\ xs.phase = "exec"
    /\ xs.runs[id].status = "running"
    /\ xs.runs[id].k > Len(xs.doc)
    /\ xs' = [xs EXCEPT !.runs[id].status = "done"]
    /\ UNCHANGED <<fieldsOf, query, mutation, subscription, types, pc, conv,
                   query_type, mutation_type, subscription_type, graphql_types,
                   todo, seen, errors, err>>

ExecNext == \E id \in RunIds : ExecField(id) \/ ExecReturn(id)

ExecSpec == ExecInit /\ [][ExecNext]_vars

----------------------------------------------------------------------------
(* Properties of the execution *)

\* the Result the caller gets: its data and errors, or the exception raised
ResultOf(id) ==
    [status |-> xs.runs[id].status, data |-> xs.runs[id].data,
     errors |-> xs.runs[id].errs]
Finished(id) == xs.runs[id].status # "running"

\* the document is a mutation done by plain (not "async def") resolvers
BlockingMutation ==
    /\ xs.doc # <<>>
    /\ \A k \in 1..Len(xs.doc) : xs.doc[k].fn \in SyncFns /\ ~xs.doc[k].intro

\* C6 (as claimed): with the extension and thread_sensitive=True, a mutation
\* by blocking resolvers gives the same Result through execute_sync and
\* through execute
C6_SameResultBothEntries ==
    (xs.ts /\ BlockingMutation /\ Finished("syncExt") /\ Finished("asyncExt"))
       => ResultOf("syncExt") = ResultOf("asyncExt")

\* the call the decision of SyncToAsync.resolve asks for
ExpectedVia(f) ==
    IF f.intro THEN "direct"
    ELSE IF f.fn \in CoroutineFns THEN "direct"
    ELSE "offload"

\* C7: every field resolved through the extension led to exactly one call of
\* its resolver, with the field's argument: direct for an introspection field
\* and for an "async def" resolver, through sync_to_async with the configured
\* thread_sensitive otherwise; and execute ran each resolver once
C7_ResolveDispatch ==
    \A id \in {"syncExt", "asyncExt"} :
        LET r == xs.runs[id]
        IN  /\ Len(r.calls) = r.k - 1
            /\ \A j \in 1..Len(r.calls) :
                  /\ r.calls[j].fn = xs.doc[j].fn
                  /\ r.calls[j].arg = xs.doc[j].arg
                  /\ r.calls[j].via = ExpectedVia(xs.doc[j])
                  /\ r.calls[j].via = "offload" => r.calls[j].ts = xs.ts
                  /\ id = "asyncExt" => r.ran[j] = 1

\* execute finished a document with an introspection field kept direct and a
\* blocking resolver offloaded
C7_Witness ==
    /\ xs.runs["asyncExt"].status = "done"
    /\ \E j \in 1..Len(xs.doc) :
          xs.doc[j].intro /\ xs.doc[j].fn \in SyncFns
          /\ xs.runs["asyncExt"].calls[j].via = "direct"
    /\ \E j \in 1..Len(xs.doc) :
          ~xs.doc[j].intro /\ xs.doc[j].fn \in SyncFns
          /\ xs.runs["asyncExt"].calls[j].via = "offload"

----------------------------------------------------------------------------
(* Properties of the build: names, reachability, roots and extra types     *)

\* two different graphene object classes of one name were both converted
TwoClassesOneName ==
    \E i \in LogIdx : \E j \in LogIdx :
        /\ conv.log[i].d \in GrapheneObjects
        /\ conv.log[j].d \in GrapheneObjects
        /\ conv.log[i].d # conv.log[j].d
        /\ conv.log[i].name = conv.log[j].name

\* C11 (as claimed): a build that refers to two distinct descriptors of one
\* type name never returns a Schema
C11_DuplicateNameFails == TwoClassesOneName => pc # "done"

\* The builds over roots and extra types of every kind of either library, the
\* fields of the object types kept to a few
RootDescriptors ==
    {"GA", "GImpl", "GInput", "GIface", "GScalar", "GEnum", "GUnion", "GString",
     "SPet", "SNode", "JunkVal"}
RootFieldsA == {<< <<"GString">> >>, << <<"GB">> >>, << <<"List", "GEnum">> >>}

InitRoots ==
    /\ \E fa \in RootFieldsA :
          fieldsOf = [b \in DOMAIN FixedFields \cup {"GA", "GB", "SPet"} |->
                         CASE b = "GA" -> fa
                           [] b = "GB" -> << <<"GString">> >>
                           [] b = "SPet" -> << <<"SStr">> >>
                           [] OTHER -> FixedFields[b]]
    /\ query \in RootDescriptors
    /\ mutation \in {"none", "GB"}
    /\ subscription = "none"
    /\ types \in SeqsUpTo(RootDescriptors, MaxExtra)
    /\ pc = "query"
    /\ conv = NewConverter
    /\ query_type = 0
    /\ mutation_type = 0
    /\ subscription_type = 0
    /\ graphql_types = <<>>
    /\ todo = <<>>
    /\ seen = {}
    /\ errors = <<>>
    /\ err = NoError
    /\ xs = XIdle

RootSpec == InitRoots /\ [][Next]_vars

\* the bases b declares as its interfaces
InterfaceBases(b) == {Base(InterfacesOf(b)[k]) : k \in 1..Len(InterfacesOf(b))}

RECURSIVE ReachableFrom(_)
\* the descriptors that can be reached from S through the types of fields,
\* the members of unions and the declared interfaces
ReachableFrom(S) ==
    LET T == S \cup UNION {RefsOf(b) \cup InterfaceBases(b) : b \in S}
    IN  IF T = S THEN S ELSE ReachableFrom(T)

\* the arguments of Schema(...)
RootArguments == {query} \cup ({mutation, subscription} \ {"none"})
ExtraArguments == {types[k] : k \in 1..Len(types)}

\* the names of the types of the assembled schema
SchemaNames == {conv.heap[i].name : i \in seen}

ObjectDescriptors == GrapheneObjects \cup StrawberryObjects

\* C13 (as claimed): a build returns a Schema only if its query root is the
\* descriptor of an Object type; for a query root of any other kind it fails
C13_QueryMustBeObject == pc = "done" => query \in ObjectDescriptors

\* the build ended inside the loop over the extra types
FailedOnExtraType ==
    /\ pc = "failed"
    /\ query_type # 0
    /\ mutation # "none" => mutation_type # 0
    /\ subscription # "none" => subscription_type # 0
    /\ Len(graphql_types) < Len(types)

\* the descriptors of the kinds the two libraries define
ValidDescriptors == (GrapheneBases \ {"GOther"}) \cup StrawberryTypes

\* C14 (as claimed): the loop over the extra types fails for no valid entry,
\* of whatever kind and library
C14_ValidExtraTypesConvert ==
    FailedOnExtraType => types[Len(graphql_types) + 1] \notin ValidDescriptors

\* the conversions that ran a graphene builder
BuilderRuns == {i \in LogIdx : conv.log[i].via = "registry" /\ conv.log[i].built}

\* C15: the builder of a graphene type name runs at most once in a build, so
\* at most one target type of that name is constructed by the bridge; a
\* reference to a type whose fields are still unresolved is answered with the
\* instance under construction, and the registry keeps holding what the
\* builder returned
C15_BuiltOnce ==
    /\ \A i \in BuilderRuns : conv.registry[conv.log[i].name] = conv.log[i].res
    /\ \A i \in BuilderRuns : \A j \in BuilderRuns :
          conv.log[i].name = conv.log[j].name => i = j
    /\ \A i \in HeapIdx : \A j \in HeapIdx :
          (/\ conv.heap[i].org = "graphene"
           /\ conv.heap[j].org = "graphene"
           /\ conv.heap[i].name = conv.heap[j].name) => i = j
    /\ \A j \in LogIdx :
          (conv.log[j].via = "registry" /\ conv.log[j].pending /\ ~conv.log[j].built)
             => \E i \in BuilderRuns : i < j /\ conv.log[i].res = conv.log[j].res

\* a finished build in which a type was referred to while its own fields
\* were being resolved
C15_Witness ==
    /\ pc = "done"
    /\ \E j \in LogIdx :
          /\ conv.log[j].via = "registry"
          /\ conv.log[j].pending
          /\ ~conv.log[j].built

----------------------------------------------------------------------------
(* Properties of the conversion of wrappers and of the two maps            *)

\* The builds in which add_type is asked for wrapped types: an object type of
\* either library as query root, graphene classes as extra types
InitNest ==
    /\ InitRoots
    /\ query \in {"GA", "SPet"}
    /\ \A k \in 1..Len(types) : types[k] \in {"GImpl", "GEnum"}

NestSpec == InitNest /\ [][Next]_vars

\* nestings of List and NonNull, one deeper than the fields of a build use
Nestings == SeqsUpTo({"List", "NonNull"}, MaxDepth + 1) \ {<<>>}

\* named descriptors, convertible and not
InnerProbes ==
    {<<b>> : b \in {"GA", "GB", "GEnum", "GString", "GDecimal", "SPet",
                    "JunkClass", "GOther"}}

\* the List and NonNull tags of a descriptor, outermost first
WrappersOf(d) ==
    SelectSeq(SubSeq(d, 1, Len(d) - 1), LAMBDA t : t \in {"List", "NonNull"})

\* the outcome r of converting a named descriptor, with the nesting ws of
\* new target wrappers around its result
Nested(ws, r) ==
    IF Failed(r) THEN r
    ELSE [r EXCEPT !.res.w = ws, !.st.wrappers = @ + Len(ws)]

\* C16: converting a nesting of List and NonNull around d gives the same
\* nesting of target wrappers around the conversion of d, with one new wrapper
\* object per level, and leaves the registry, the type_map and the constructed
\* named types as converting d alone leaves them; it fails as d fails
C16_WrappersPreserved ==
    /\ \A d \in InnerProbes : \A ws \in Nestings :
          AddType(conv, ws \o d) = Nested(ws, AddType(conv, d))
    /\ \A i \in HeapIdx :
          (conv.heap[i].org = "graphene" /\ conv.heap[i].kind = "object"
           /\ conv.heap[i].resolved)
             => \A k \in 1..Len(conv.heap[i].ftypes) :
                   /\ conv.heap[i].ftypes[k].w = WrappersOf(fieldsOf[conv.heap[i].src][k])
                   /\ conv.heap[i].ftypes[k].t \in HeapIdx

\* a built schema with a graphene field whose type is a List around a named
\* type the registry holds
C16_Witness ==
    /\ pc = "done"
    /\ conv.wrappers > 0
    /\ \E i \in seen :
          /\ conv.heap[i].org = "graphene"
          /\ conv.heap[i].ftypes # <<>>
          /\ conv.heap[i].ftypes[1].w = <<"List">>
          /\ conv.registry[conv.heap[conv.heap[i].ftypes[1].t].name]
                = conv.heap[i].ftypes[1].t

\* the names the graphene registry holds
Registered == {n \in Names : conv.registry[n] # 0}

\* C17: every name of the registry whose target type is no scalar has an
\* entry in the host's type_map with that same instance as implementation,
\* and a build with a graphene query root that returned a Schema found the
\* root's name in type_map; no build ends in the lookup's KeyError
C17_RegistryInTypeMap ==
    /\ \A n \in Registered :
          conv.heap[conv.registry[n]].kind # "scalar"
             => /\ conv.type_map[n].def # "absent"
                /\ conv.type_map[n].impl = conv.registry[n]
    /\ (pc = "done" /\ query \in GrapheneObjects)
          => /\ conv.type_map[NameOf(query)].def # "absent"
             /\ conv.type_map[NameOf(query)].impl = query_type
    /\ err.kind # "KeyError"

\* a built schema with a graphene query root and a second non-scalar name in
\* the registry
C17_Witness ==
    /\ pc = "done"
    /\ query \in GrapheneObjects
    /\ conv.type_map[NameOf(query)] = [def |-> "None", impl |-> query_type]
    /\ \E n \in Registered :
          n # NameOf(query) /\ conv.heap[conv.registry[n]].kind # "scalar"

----------------------------------------------------------------------------
(* The order of the steps of Schema.__init__                               *)

\* the place of a position in the order of the build's steps
StepRank(p) ==
    CASE p = "query" -> 1
      [] p = "mutation" -> 2
      [] p = "subscription" -> 3
      [] p = "directives" -> 4
      [] p = "types" -> 5
      [] p = "collect" -> 6
      [] p = "validate" -> 7
      [] OTHER -> 8

\* C18: a build goes through its steps in the order query, mutation,
\* subscription, directives, extra types, assembly, validation, leaving none
\* out unless it fails; a root is converted exactly when it was given; the
\* assembly starts when every extra type is converted; types are converted
\* only before validation; validation runs in one step, after the assembly,
\* and a Schema is returned only out of a validation that found no error
C18_StepOrder ==
    [][/\ pc' # pc => pc' = "failed" \/ StepRank(pc') = StepRank(pc) + 1
       /\ pc' = "done" => pc = "validate" /\ errors' = <<>>
       /\ errors' # errors => pc = "validate"
       /\ conv' # conv => StepRank(pc) < StepRank("validate")
       /\ (pc = "query" /\ pc' = "mutation") => query_type' # 0
       /\ (pc = "mutation" /\ pc' = "subscription")
             => (mutation_type' # 0 <=> mutation # "none")
       /\ (pc = "subscription" /\ pc' = "directives")
             => (subscription_type' # 0 <=> subscription # "none")
       /\ (pc = "types" /\ pc' = "collect")
             => Len(graphql_types) = Len(types) /\ todo' # <<>>
       /\ (pc = "collect" /\ pc' = "validate") => todo = <<>>
      ]_vars

\* a Schema was returned by a build that was given a mutation, a subscription
\* and an extra type
C18_Witness ==
    /\ pc = "done"
    /\ mutation_type # 0
    /\ subscription_type # 0
    /\ Len(graphql_types) = Len(types)
    /\ types # <<>>
    /\ errors = <<>>

----------------------------------------------------------------------------
(* Two builds, one after the other, in one process                         *)

\* mutant: the second build goes on with the maps of the first
FreshConverter_Shared(old) == [old EXCEPT !.log = <<>>]

\* GraphQLCoreConverter(...) of another Schema(...): a new converter with a
\* new registry and a new type_map; the target types made so far stay alive
FreshConverter(old) == [NewConverter EXCEPT !.heap = old.heap]

\* Schema(...) is called a second time, over the same classes, once the first
\* call has returned or raised; the converter of the first call is kept aside
NewBuild ==
    /\ xs = XIdle
    /\ pc \in {"done", "failed"}
    /\ xs' = [phase |-> "rebuilt", first |-> conv]
    /\ query' \in {"GA", "SPet"}
    /\ conv' = FreshConverter(conv)
    /\ pc' = "query"
    /\ query_type' = 0
    /\ mutation_type' = 0
    /\ subscription_type' = 0
    /\ graphql_types' = <<>>
    /\ todo' = <<>>
    /\ seen' = {}
    /\ errors' = <<>>
    /\ err' = NoError
    /\ UNCHANGED <<fieldsOf, mutation, subscription, types>>

TwoSpec == InitNest /\ [][Next \/ NewBuild]_vars

Rebuilt == xs.phase = "rebuilt"
\* the target types that existed before the second build began
MadeBefore == IF Rebuilt THEN 1..Len(xs.first.heap) ELSE {}

\* C19 (as claimed): a descriptor converted by both builds has two distinct
\* target instances
C19_DistinctInstances ==
    Rebuilt =>
       \A n \in Names :
           (conv.registry[n] # 0 /\ xs.first.registry[n] # 0)
              => conv.registry[n] # xs.first.registry[n]

\* C19 (amended): every build starts with an empty registry and an empty
\* type_map, and nothing a build's converter registers or returns is a target
\* type an earlier build made, the built-in String scalar excepted, which is
\* one instance for all builds
C19_BuildsIsolated ==
    /\ pc = "query" =>
          /\ conv.registry = NewConverter.registry
          /\ conv.type_map = NewConverter.type_map
    /\ \A n \in Names :
          /\ conv.registry[n] \in MadeBefore => conv.registry[n] = BuiltinString
          /\ conv.type_map[n].impl \in MadeBefore
                => conv.type_map[n].impl = BuiltinString
    /\ \A j \in LogIdx :
          conv.log[j].res \in MadeBefore => conv.log[j].res = BuiltinString

\* both builds returned a Schema and both converted one graphene class, to
\* two instances
C19_Witness ==
    /\ Rebuilt
    /\ pc = "done"
    /\ \E n \in Names :
          /\ conv.registry[n] # 0
          /\ xs.first.registry[n] # 0
          /\ conv.registry[n] # xs.first.registry[n]
          /\ xs.first.type_map[n].impl = xs.first.registry[n]

====
